---- MODULE Spec2Model ----
(***************************************************************************)
(* Model of server.js: the Express middleware chain (express.json, the     *)
(* /api/ rate limiter), the helpers sanitizeInput, validateMessages and    *)
(* logMetrics, and the POST /api/chat handler with its two suspension      *)
(* points (await fetch, await response.json()).                            *)
(*                                                                         *)
(* JavaScript strings are sequences of one-character strings, so that      *)
(* trim, slice, template concatenation and String.prototype.includes are   *)
(* computed on characters.                                                 *)
(***************************************************************************)
EXTENDS Integers, Sequences, FiniteSets, TLC

VARIABLES
    env,        \* process.env.NODE_ENV
    pc,         \* position of the /api/chat handler
    body,       \* req.body of the request being handled
    requestBody,\* body of the upstream request, once built
    response,   \* upstream response the handler is reading
    logs,       \* records printed by logMetrics for this request
    res,        \* responses sent to the caller for this request
    trace,      \* steps the handler has taken for this request, in order
    hits,       \* rate limiter store: client identity -> hits in its window
    skipped,    \* per client: requests of the window the limiter never saw
    last,       \* last request taken through the middleware chain
    sIn,        \* argument of sanitizeInput
    sOut,       \* its result
    vIn,        \* argument of validateMessages
    vOut        \* its result

vars ==
    << env, pc, body, requestBody, response, logs, res, trace,
       hits, skipped, last, sIn, sOut, vIn, vOut >>

chatVars ==
    << env, pc, body, requestBody, response, logs, res, trace >>

limiterVars ==
    << hits, skipped, last >>

sanitizeVars ==
    << sIn, sOut >>

validateVars ==
    << vIn, vOut >>

\* ---------------------------------------------------------------------
\* String literals of server.js and of the runtime, as character tuples
\* ---------------------------------------------------------------------

NeedleAuth ==
    << "A", "P", "I", " ", "E", "r", "r", "o", "r", ":", " ", "4", "0", "1" >>

NeedleRate ==
    << "A", "P", "I", " ", "E", "r", "r", "o", "r", ":", " ", "4", "2", "9" >>

ApiErrorPrefix ==
    << "A", "P", "I", " ", "E", "r", "r", "o", "r", ":", " " >>

DashSep ==
    << " ", "-", " " >>

JsonOpen ==
    << "{", "\"", "m", "e", "s", "s", "a", "g", "e", "\"", ":", "\"" >>

JsonClose ==
    << "\"", "}" >>

MsgNotArray ==
    << "M", "e", "s", "s", "a", "g", "e", "s", " ", "d", "e", "v", "e", " ", "e", "s", "s", "e", "r", "e", " ", "u", "n", " ", "a", "r", "r", "a", "y" >>

MsgEmpty ==
    << "M", "e", "s", "s", "a", "g", "e", "s", " ", "n", "o", "n", " ", "p", "u", "o", " ", "e", "s", "s", "e", "r", "e", " ", "v", "u", "o", "t", "o" >>

MsgTooMany ==
    << "T", "r", "o", "p", "p", "e", " ", "m", "e", "s", "s", "a", "g", "g", "i", " ", "n", "e", "l", "l", "a", " ", "c", "o", "n", "v", "e", "r", "s", "a", "z", "i", "o", "n", "e" >>

MsgBadFormat ==
    << "F", "o", "r", "m", "a", "t", "o", " ", "m", "e", "s", "s", "a", "g", "g", "i", "o", " ", "n", "o", "n", " ", "v", "a", "l", "i", "d", "o" >>

MsgBadRole ==
    << "R", "o", "l", "e", " ", "n", "o", "n", " ", "v", "a", "l", "i", "d", "o" >>

MsgNullRole ==
    << "C", "a", "n", "n", "o", "t", " ", "r", "e", "a", "d", " ", "p", "r", "o", "p", "e", "r", "t", "i", "e", "s", " ", "o", "f", " ", "n", "u", "l", "l", " ", "(", "r", "e", "a", "d", "i", "n", "g", " ", "'", "r", "o", "l", "e", "'", ")" >>

MsgNoContentList ==
    << "C", "a", "n", "n", "o", "t", " ", "r", "e", "a", "d", " ", "p", "r", "o", "p", "e", "r", "t", "i", "e", "s", " ", "o", "f", " ", "u", "n", "d", "e", "f", "i", "n", "e", "d", " ", "(", "r", "e", "a", "d", "i", "n", "g", " ", "'", "0", "'", ")" >>

MsgNoFirstBlock ==
    << "C", "a", "n", "n", "o", "t", " ", "r", "e", "a", "d", " ", "p", "r", "o", "p", "e", "r", "t", "i", "e", "s", " ", "o", "f", " ", "u", "n", "d", "e", "f", "i", "n", "e", "d", " ", "(", "r", "e", "a", "d", "i", "n", "g", " ", "'", "t", "e", "x", "t", "'", ")" >>

MsgFetchFailed ==
    << "f", "e", "t", "c", "h", " ", "f", "a", "i", "l", "e", "d" >>

MsgJsonSyntaxOld ==
    << "U", "n", "e", "x", "p", "e", "c", "t", "e", "d", " ", "t", "o", "k", "e", "n", " ", "<", " ", "i", "n", " ", "J", "S", "O", "N", " ", "a", "t", " ", "p", "o", "s", "i", "t", "i", "o", "n", " ", "0" >>

MsgJsonSyntaxNew ==
    << "U", "n", "e", "x", "p", "e", "c", "t", "e", "d", " ", "t", "o", "k", "e", "n", " ", "'", "<", "'", ",", " ", "\"", "<", "h", "t", "m", "l", ">", "\"", " ", "i", "s", " ", "n", "o", "t", " ", "v", "a", "l", "i", "d", " ", "J", "S", "O", "N" >>

StrUser ==
    << "u", "s", "e", "r" >>

StrAssistant ==
    << "a", "s", "s", "i", "s", "t", "a", "n", "t" >>

StrSystem ==
    << "s", "y", "s", "t", "e", "m" >>

\* ---------------------------------------------------------------------
\* Bounds and program constants
\* ---------------------------------------------------------------------

\* longest string drawn as an input of sanitizeInput
MaxStrLen ==
    5

\* longest array of freely chosen items drawn as `messages`
MaxFreeItems ==
    2

\* most requests of one window that bypass the limiter before the model
\* stops counting them
MaxSkipped ==
    1

\* slice(0, 4000) of sanitizeInput, scaled down to keep strings short
SliceLimit ==
    3

\* messages.length > 50 of validateMessages
MaxMessages ==
    50

\* max: 100 of the rate limiter
RateMax ==
    100

\* ---------------------------------------------------------------------
\* JavaScript values
\* ---------------------------------------------------------------------

\* A scalar taken from JSON: t is its typeof-like tag, s its characters
\* (the text of a string, the digits of a number).
Undefined ==
    [t |-> "undefined", s |-> << >>]

Null ==
    [t |-> "null", s |-> << >>]

Str(s) ==
    [t |-> "string", s |-> s]

Num(s) ==
    [t |-> "number", s |-> s]

\* An element of an array: null, or an object with role and content.
\* A primitive element (5, "x") reads role and content as undefined and
\* behaves as the object with both properties undefined.
NullItem ==
    [t |-> "null", role |-> Undefined, content |-> Undefined]

Obj(r, c) ==
    [t |-> "object", role |-> r, content |-> c]

\* The value of req.body.messages.
NoMessages ==
    [t |-> "undefined", s |-> << >>, items |-> << >>]

NullMessages ==
    [t |-> "null", s |-> << >>, items |-> << >>]

StrMessages(s) ==
    [t |-> "string", s |-> s, items |-> << >>]

ObjMessages ==
    [t |-> "object", s |-> << >>, items |-> << >>]

Arr(items) ==
    [t |-> "array", s |-> << >>, items |-> items]

\* ToBoolean
Truthy(v) ==
    CASE v.t = "undefined" -> FALSE
      [] v.t = "null" -> FALSE
      [] v.t = "string" -> v.s # << >>
      [] v.t = "number" -> v.s # << "0" >>
      [] OTHER -> TRUE

IsWhitespace(c) ==
    c \in {" ", "\t", "\n"}

\* String.prototype.trimStart
RECURSIVE TrimStart(_)
TrimStart(s) ==
    IF s # << >> /\ IsWhitespace(Head(s)) THEN TrimStart(Tail(s)) ELSE s

\* String.prototype.trimEnd
RECURSIVE TrimEnd(_)
TrimEnd(s) ==
    IF s # << >> /\ IsWhitespace(s[Len(s)])
    THEN TrimEnd(SubSeq(s, 1, Len(s) - 1))
    ELSE s

\* String.prototype.trim
Trim(s) ==
    TrimEnd(TrimStart(s))

\* String.prototype.slice(0, n), n >= 0
Slice0(s, n) ==
    IF Len(s) <= n THEN s ELSE SubSeq(s, 1, n)

\* String.prototype.includes
Includes(s, needle) ==
    \E i \in 1..(Len(s) - Len(needle) + 1) :
        SubSeq(s, i, i + Len(needle) - 1) = needle

\* Decimal digits of a non-negative integer, as `${n}` prints them
DigitChar(d) ==
    CASE d = 0 -> "0" [] d = 1 -> "1" [] d = 2 -> "2" [] d = 3 -> "3"
      [] d = 4 -> "4" [] d = 5 -> "5" [] d = 6 -> "6" [] d = 7 -> "7"
      [] d = 8 -> "8" [] d = 9 -> "9"

RECURSIVE Digits(_)
Digits(n) ==
    IF n < 10 THEN << DigitChar(n) >>
    ELSE Digits(n \div 10) \o << DigitChar(n % 10) >>

\* ---------------------------------------------------------------------
\* Utility functions
\* ---------------------------------------------------------------------

\* function sanitizeInput(text)
sanitizeInput(text) ==
    IF text.t # "string" THEN << >>
    ELSE Slice0(Trim(text.s), SliceLimit)

\* Outcome of a call that may throw: ok, or the thrown Error's message
Returned ==
    [ok |-> TRUE, message |-> << >>]

Threw(m) ==
    [ok |-> FALSE, message |-> m]

\* the for..of loop of validateMessages, from item i on
RECURSIVE CheckItems(_, _)
CheckItems(items, i) ==
    IF i > Len(items) THEN Returned
    ELSE LET msg == items[i] IN
         IF msg.t = "null" THEN Threw(MsgNullRole)
         ELSE IF ~Truthy(msg.role) \/ ~Truthy(msg.content)
              THEN Threw(MsgBadFormat)
         ELSE IF ~(msg.role.t = "string"
                   /\ msg.role.s \in {StrUser, StrAssistant})
              THEN Threw(MsgBadRole)
         ELSE CheckItems(items, i + 1)

\* function validateMessages(messages)
validateMessages(messages) ==
    IF messages.t # "array" THEN Threw(MsgNotArray)
    ELSE IF Len(messages.items) = 0 THEN Threw(MsgEmpty)
    ELSE IF Len(messages.items) > MaxMessages THEN Threw(MsgTooMany)
    ELSE CheckItems(messages.items, 1)

\* req.body.messages?.length || 0
MessagesCount(messages) ==
    CASE messages.t = "array" -> Len(messages.items)
      [] messages.t = "string" -> Len(messages.s)
      [] OTHER -> 0

\* one record printed by logMetrics(req, responseTime, success)
LogRecord(b, success) ==
    [success |-> success, messagesCount |-> MessagesCount(b.messages)]

\* ---------------------------------------------------------------------
\* POST /api/chat
\* ---------------------------------------------------------------------

NoRequest ==
    [built |-> FALSE, model |-> "", max_tokens |-> "",
     messages |-> << >>, hasSystem |-> FALSE, system |-> << >>]

\* sanitizedMessages and requestBody, with the optional system field
BuildRequest(b) ==
    [built |-> TRUE,
     model |-> "CONFIG.MODEL",
     max_tokens |-> "CONFIG.MAX_TOKENS",
     messages |-> [i \in 1..Len(b.messages.items) |->
                     [role |-> b.messages.items[i].role,
                      content |-> sanitizeInput(b.messages.items[i].content)]],
     hasSystem |-> Truthy(b.systemPrompt),
     system |-> IF Truthy(b.systemPrompt)
                THEN sanitizeInput(b.systemPrompt) ELSE << >>]

\* steps recorded while the request is built: one sanitizeInput call per
\* message, one more for a truthy systemPrompt
BuildTrace(b) ==
    [i \in 1..Len(b.messages.items) |-> "sanitize"]
    \o (IF Truthy(b.systemPrompt) THEN << "sanitize" >> ELSE << >>)

Sent(status, error, hasDetails, details) ==
    [status |-> status, success |-> FALSE, error |-> error,
     hasDetails |-> hasDetails, details |-> details, message |-> << >>]

\* res.json({ success: true, message, usage, model })
SentOk(text) ==
    [status |-> 200, success |-> TRUE, error |-> "",
     hasDetails |-> FALSE, details |-> << >>, message |-> text]

\* res.status(400).json({ error: 'Parametro messages mancante' })
SentMissing ==
    Sent(400, "Parametro messages mancante", FALSE, << >>)

\* the if chain of the catch block on error.message
ErrorResponse(message, e) ==
    IF Includes(message, NeedleAuth)
    THEN Sent(500, "Errore di autenticazione con il servizio AI", FALSE, << >>)
    ELSE IF Includes(message, NeedleRate)
    THEN Sent(429, "Troppi richieste al servizio AI. Riprova tra poco.",
              FALSE, << >>)
    ELSE Sent(500, "Errore del server. Riprova tra poco.",
              e = "development",
              IF e = "development" THEN message ELSE << >>)

\* the catch block: logMetrics(req, responseTime, false), then the response
Catch(message, b, e, st) ==
    [pc |-> "done",
     requestBody |-> st.requestBody,
     logs |-> Append(st.logs, LogRecord(b, FALSE)),
     res |-> Append(st.res, ErrorResponse(message, e)),
     trace |-> st.trace \o << "log", "respond" >>]

\* The handler with the result of validateMessages ignored, as it would be
\* if the validator returned false instead of throwing.
ChatStartUnchecked(b, e) ==
    IF ~Truthy(b.messages)
    THEN [pc |-> "done", requestBody |-> NoRequest, logs |-> << >>,
          res |-> << SentMissing >>, trace |-> << "respond" >>]
    ELSE LET v == validateMessages(b.messages)
             t == << IF v.ok THEN "validate:ok" ELSE "validate:throw" >>
         IN  IF b.messages.t # "array"
             THEN Catch(MsgNotArray, b, e,
                        [requestBody |-> NoRequest, logs |-> << >>,
                         res |-> << >>, trace |-> t])
             ELSE [pc |-> "awaitFetch", requestBody |-> BuildRequest(b),
                   logs |-> << >>, res |-> << >>,
                   trace |-> t \o BuildTrace(b) \o << "fetch" >>]

\* app.post('/api/chat'), from its entry to the first await (or to its
\* return when it ends before): destructuring, the missing-messages
\* check, validateMessages, sanitization, requestBody and the fetch call
ChatStart(b, e) ==
    IF ~Truthy(b.messages)
    THEN [pc |-> "done", requestBody |-> NoRequest, logs |-> << >>,
          res |-> << SentMissing >>, trace |-> << "respond" >>]
    ELSE LET v == validateMessages(b.messages) IN
         IF ~v.ok
         THEN Catch(v.message, b, e,
                    [requestBody |-> NoRequest, logs |-> << >>,
                     res |-> << >>, trace |-> << "validate:throw" >>])
         ELSE [pc |-> "awaitFetch", requestBody |-> BuildRequest(b),
               logs |-> << >>, res |-> << >>,
               trace |-> << "validate:ok" >> \o BuildTrace(b)
                         \o << "fetch" >>]

\* JSON.stringify(errorData) for an upstream error body whose JSON carries
\* the text m
Stringify(m) ==
    JsonOpen \o m \o JsonClose

\* `API Error: ${response.status} - ${JSON.stringify(errorData)}`
ApiErrorMessage(r) ==
    ApiErrorPrefix \o Digits(r.status) \o DashSep \o Stringify(r.text)

\* response.ok
Ok(r) ==
    r.status >= 200 /\ r.status <= 299

NoResponse ==
    [status |-> 0, valid |-> FALSE, text |-> << >>, blocks |-> 0,
     syntax |-> << >>]

\* An upstream response: status, whether the body is JSON, the text the
\* JSON carries, the content list (-1: no content field, otherwise its
\* length), and the SyntaxError message of response.json() on a body that
\* is not JSON, which differs between runtime versions.
UpstreamResponse(status, valid, text, blocks, syntax) ==
    [status |-> status, valid |-> valid, text |-> text, blocks |-> blocks,
     syntax |-> syntax]

Statuses ==
    {200, 401, 429, 500}

SyntaxMessages ==
    {MsgJsonSyntaxOld, MsgJsonSyntaxNew}

UpstreamResponses ==
    { UpstreamResponse(s, FALSE, << >>, 0, m) :
        s \in Statuses, m \in SyntaxMessages }
    \cup { UpstreamResponse(s, TRUE, t, 0, << >>) :
        s \in Statuses \ {200}, t \in {<< >>, NeedleAuth, NeedleRate} }
    \cup { UpstreamResponse(200, TRUE, << "h", "i" >>, n, << >>) :
        n \in {-1, 0, 1} }

EnvValues ==
    {"development", "production", "undefined"}

\* the handler after `await response.json()` of the 2xx branch settled:
\* a SyntaxError, or logMetrics(req, responseTime, true) followed by
\* res.json with data.content[0].text
ChatFinish(r, b, e, st) ==
    IF ~r.valid THEN Catch(r.syntax, b, e, st)
    ELSE LET logged == [requestBody |-> st.requestBody,
                        logs |-> Append(st.logs, LogRecord(b, TRUE)),
                        res |-> st.res,
                        trace |-> Append(st.trace, "log")]
         IN  IF r.blocks = -1 THEN Catch(MsgNoContentList, b, e, logged)
             ELSE IF r.blocks = 0 THEN Catch(MsgNoFirstBlock, b, e, logged)
             ELSE [pc |-> "done",
                   requestBody |-> logged.requestBody,
                   logs |-> logged.logs,
                   res |-> Append(logged.res, SentOk(r.text)),
                   trace |-> Append(logged.trace, "respond")]

\* the handler after `await response.json()` of the !response.ok branch
\* settled: a SyntaxError, or the thrown API Error
ChatError(r, b, e, st) ==
    Catch(IF r.valid THEN ApiErrorMessage(r) ELSE r.syntax, b, e, st)

\* ---------------------------------------------------------------------
\* Request bodies
\* ---------------------------------------------------------------------

Hi ==
    << "h", "i" >>

Roles ==
    {Undefined, Str(<< >>), Str(StrUser), Str(StrAssistant), Str(StrSystem),
     Num(<< "1" >>)}

Contents ==
    {Undefined, Str(<< >>), Str(Hi), Str(<< "a", " ", "b", "c" >>),
     Num(<< "5" >>)}

Items ==
    {NullItem} \cup { Obj(r, c) : r \in Roles, c \in Contents }

ValidItem ==
    Obj(Str(StrUser), Str(Hi))

\* arrays of up to MaxFreeItems freely chosen items
FreeArrays ==
    UNION { [1..n -> Items] : n \in 0..MaxFreeItems }

\* arrays around the length limit: all items valid, or the last one not
LongArrays ==
    { [i \in 1..n |-> IF i = n THEN x ELSE ValidItem] :
        n \in {MaxMessages, MaxMessages + 1},
        x \in {ValidItem, NullItem, Obj(Str(StrSystem), Str(Hi)),
               Obj(Str(StrUser), Undefined)} }

MessagesValues ==
    {NoMessages, NullMessages, StrMessages(<< >>), StrMessages(Hi),
     ObjMessages}
    \cup { Arr(a) : a \in FreeArrays \cup LongArrays }

SystemPrompts ==
    {Undefined, Null, Str(<< >>), Str(<< " " >>), Str(Hi), Num(<< "5" >>)}

Body(m, p) ==
    [messages |-> m, systemPrompt |-> p]

NoBody ==
    Body(NoMessages, Undefined)

Bodies ==
    { Body(m, p) : m \in MessagesValues, p \in SystemPrompts }

\* ---------------------------------------------------------------------
\* The chat handler as a state machine
\* ---------------------------------------------------------------------

ChatIdle ==
    /\ pc = "idle"
    /\ body = NoBody
    /\ requestBody = NoRequest
    /\ response = NoResponse
    /\ logs = << >>
    /\ res = << >>
    /\ trace = << >>

Current ==
    [requestBody |-> requestBody, logs |-> logs, res |-> res,
     trace |-> trace]

Become(st) ==
    /\ pc' = st.pc
    /\ requestBody' = st.requestBody
    /\ logs' = st.logs
    /\ res' = st.res
    /\ trace' = st.trace

\* a request that passed the middleware enters the handler and runs to
\* its first await or to its end
Receive ==
    /\ pc = "idle"
    /\ \E b \in Bodies :
          /\ body' = b
          /\ Become(ChatStart(b, env))
    /\ UNCHANGED << env, response, limiterVars, sanitizeVars, validateVars >>

\* fetch rejects: no response, the catch block runs
FetchRejects ==
    /\ pc = "awaitFetch"
    /\ Become(Catch(MsgFetchFailed, body, env, Current))
    /\ UNCHANGED << env, body, response, limiterVars, sanitizeVars,
                    validateVars >>

\* fetch resolves with a response, whose body is read next
FetchResolves ==
    /\ pc = "awaitFetch"
    /\ \E r \in UpstreamResponses :
          /\ response' = r
          /\ pc' = IF Ok(r) THEN "awaitJson" ELSE "awaitErrorJson"
    /\ trace' = Append(trace, "response")
    /\ UNCHANGED << env, body, requestBody, logs, res, limiterVars,
                    sanitizeVars, validateVars >>

\* response.json() of the !response.ok branch settles
ErrorJsonSettles ==
    /\ pc = "awaitErrorJson"
    /\ Become(ChatError(response, body, env, Current))
    /\ UNCHANGED << env, body, response, limiterVars, sanitizeVars,
                    validateVars >>

\* response.json() of the 2xx branch settles
JsonSettles ==
    /\ pc = "awaitJson"
    /\ Become(ChatFinish(response, body, env, Current))
    /\ UNCHANGED << env, body, response, limiterVars, sanitizeVars,
                    validateVars >>

\* ---------------------------------------------------------------------
\* The middleware chain: cors, express.json, the /api/ rate limiter, the
\* routes, the final error handler
\* ---------------------------------------------------------------------

Clients ==
    {"ip1", "ip2"}

\* the requests sent to the server: path and kind of body
Requests ==
    { [path |-> "/api/health", payload |-> "none"],
      [path |-> "/api/chat", payload |-> "json"],
      [path |-> "/api/chat", payload |-> "malformed"],
      [path |-> "/api/feedback", payload |-> "json"],
      [path |-> "/other", payload |-> "none"] }

\* app.use('/api/', limiter)
UnderApi(path) ==
    path \in {"/api/health", "/api/chat", "/api/feedback"}

NoLast ==
    [client |-> "", path |-> "", payload |-> "", ordinal |-> 0,
     status |-> 0, outcome |-> "", steps |-> << >>]

\* One request through the chain, in registration order.  express.json
\* passes a body it cannot parse to next(err), which skips every
\* non-error middleware up to the error handler; the limiter answers 429
\* once the client's hits exceed max, and calls next() otherwise.
\* h is the client's hit count before the request.
Chain(rq, h) ==
    IF rq.payload = "malformed"
    THEN [hits |-> h, status |-> 500, outcome |-> "errorHandler",
          steps |-> << "cors", "express.json", "errorHandler" >>]
    ELSE IF ~UnderApi(rq.path)
    THEN [hits |-> h, status |-> 404, outcome |-> "notFound",
          steps |-> << "cors", "express.json" >>]
    ELSE IF h + 1 > RateMax
    THEN [hits |-> h + 1, status |-> 429, outcome |-> "rateLimited",
          steps |-> << "cors", "express.json", "limiter" >>]
    ELSE [hits |-> h + 1, status |-> 200, outcome |-> "handler",
          steps |-> << "cors", "express.json", "limiter", "handler" >>]

LimiterIdle ==
    /\ hits = [c \in Clients |-> 0]
    /\ skipped = [c \in Clients |-> 0]
    /\ last = NoLast

\* a client sends a request
Request ==
    /\ \E c \in Clients, rq \in Requests :
          LET r == Chain(rq, hits[c])
              bypass == UnderApi(rq.path) /\ r.hits = hits[c]
          IN  /\ hits[c] <= RateMax + 1
              /\ bypass => skipped[c] < MaxSkipped
              /\ hits' = [hits EXCEPT ![c] = r.hits]
              /\ skipped' = [skipped EXCEPT
                               ![c] = IF bypass THEN @ + 1 ELSE @]
              /\ last' = [client |-> c, path |-> rq.path,
                          payload |-> rq.payload,
                          ordinal |-> IF UnderApi(rq.path)
                                      THEN hits[c] + skipped[c] + 1 ELSE 0,
                          status |-> r.status, outcome |-> r.outcome,
                          steps |-> r.steps]
    /\ UNCHANGED << chatVars, sanitizeVars, validateVars >>

\* windowMs elapsed since the client's first hit: its entry is dropped
WindowElapses ==
    /\ \E c \in Clients :
          /\ hits[c] > 0 \/ skipped[c] > 0
          /\ hits' = [hits EXCEPT ![c] = 0]
          /\ skipped' = [skipped EXCEPT ![c] = 0]
    /\ last' = NoLast
    /\ UNCHANGED << chatVars, sanitizeVars, validateVars >>

\* ---------------------------------------------------------------------
\* sanitizeInput and validateMessages applied to drawn inputs
\* ---------------------------------------------------------------------

Chars ==
    {"a", " "}

Strings ==
    UNION { [1..n -> Chars] : n \in 0..MaxStrLen }

SanitizeInputs ==
    { Str(s) : s \in Strings }
    \cup {Undefined, Null, Num(<< "5" >>), [t |-> "object", s |-> << >>]}

NotRun ==
    [done |-> FALSE, value |-> << >>]

SanitizeIdle ==
    /\ sIn = Undefined
    /\ sOut = NotRun

Sanitize ==
    /\ ~sOut.done
    /\ sOut' = [done |-> TRUE, value |-> sanitizeInput(sIn)]
    /\ UNCHANGED << sIn, chatVars, limiterVars, validateVars >>

NotValidated ==
    [done |-> FALSE, ok |-> FALSE, message |-> << >>]

ValidateIdle ==
    /\ vIn = NoMessages
    /\ vOut = NotValidated

Validate ==
    /\ ~vOut.done
    /\ LET v == validateMessages(vIn)
       IN  vOut' = [done |-> TRUE, ok |-> v.ok, message |-> v.message]
    /\ UNCHANGED << vIn, chatVars, limiterVars, sanitizeVars >>

\* ---------------------------------------------------------------------
\* Specifications
\* ---------------------------------------------------------------------

\* the chat handler, for requests that passed the middleware
Init ==
    /\ env \in EnvValues
    /\ ChatIdle
    /\ LimiterIdle
    /\ SanitizeIdle
    /\ ValidateIdle

Next ==
    \/ Receive
    \/ FetchRejects
    \/ FetchResolves
    \/ ErrorJsonSettles
    \/ JsonSettles

Spec ==
    Init /\ [][Next]_vars

\* the middleware chain in front of the routes
LimiterInit ==
    /\ env = "production"
    /\ ChatIdle
    /\ LimiterIdle
    /\ SanitizeIdle
    /\ ValidateIdle

LimiterNext ==
    \/ Request
    \/ WindowElapses

LimiterSpec ==
    LimiterInit /\ [][LimiterNext]_vars

\* sanitizeInput on drawn inputs
SanitizeInit ==
    /\ env = "production"
    /\ ChatIdle
    /\ LimiterIdle
    /\ sIn \in SanitizeInputs
    /\ sOut = NotRun
    /\ ValidateIdle

SanitizeStep ==
    Sanitize

SanitizeSpec ==
    SanitizeInit /\ [][SanitizeStep]_vars

\* validateMessages on drawn inputs
ValidateInit ==
    /\ env = "production"
    /\ ChatIdle
    /\ LimiterIdle
    /\ SanitizeIdle
    /\ vIn \in MessagesValues
    /\ vOut = NotValidated

ValidateStep ==
    Validate

ValidateSpec ==
    ValidateInit /\ [][ValidateStep]_vars

\* ---------------------------------------------------------------------
\* Properties
\* ---------------------------------------------------------------------

\* an item that section 4.2 admits: an object with a truthy role, a
\* truthy content and the role "user" or "assistant"
AdmissibleItem(x) ==
    /\ x.t = "object"
    /\ Truthy(x.role)
    /\ Truthy(x.content)
    /\ x.role \in {Str(StrUser), Str(StrAssistant)}

\* a conversation that section 4.2 admits
Admissible(m) ==
    /\ m.t = "array"
    /\ Len(m.items) >= 1
    /\ Len(m.items) <= MaxMessages
    /\ \A i \in 1..Len(m.items) : AdmissibleItem(m.items[i])

\* the failure of section 4.2 that a thrown message stands for
FailureName(message) ==
    CASE message = MsgNotArray -> "InvalidFormat"
      [] message = MsgEmpty -> "EmptyConversation"
      [] message = MsgTooMany -> "TooManyMessages"
      [] message = MsgBadFormat -> "MalformedMessage"
      [] message = MsgBadRole -> "InvalidRole"
      [] OTHER -> "TypeError"

\* the failure section 4.2 prescribes for a conversation it does not admit
PrescribedFailure(m) ==
    IF m.t # "array" THEN "InvalidFormat"
    ELSE IF Len(m.items) = 0 THEN "EmptyConversation"
    ELSE IF Len(m.items) > MaxMessages THEN "TooManyMessages"
    ELSE LET i == CHOOSE k \in 1..Len(m.items) :
                      /\ ~AdmissibleItem(m.items[k])
                      /\ \A j \in 1..(k - 1) : AdmissibleItem(m.items[j])
             x == m.items[i]
         IN  IF x.t # "object" \/ ~Truthy(x.role) \/ ~Truthy(x.content)
             THEN "MalformedMessage"
             ELSE "InvalidRole"

Has(ev) ==
    \E i \in 1..Len(trace) : trace[i] = ev

\* the request is over and exactly one response went out, with status s
Answered(s) ==
    /\ Len(res) = 1
    /\ res[1].status = s

\* C1: a chat request whose messages field is missing or does not pass
\* the Conversation Validator is answered with HTTP 400.
C1_InvalidConversationIs400 ==
    (pc = "done" /\ ~Admissible(body.messages)) => Answered(400)

\* C2: every chat request that reached the handler and is over has
\* emitted exactly one metrics log record.
C2_ExactlyOneLogRecord ==
    pc = "done" => Len(logs) = 1

\* position of the handler's steps in the order validation, sanitization,
\* upstream call, logging and response
Stage(ev) ==
    CASE ev \in {"validate:ok", "validate:throw"} -> 1
      [] ev = "sanitize" -> 2
      [] ev \in {"fetch", "response"} -> 3
      [] ev \in {"log", "respond"} -> 4

\* C3: within a request the steps occur in the order validation,
\* sanitization, upstream call, logging and response; the upstream call
\* is issued only after validateMessages accepted the conversation and
\* after sanitization, and a request whose conversation fails validation
\* or lacks messages causes no upstream call.
C3_ValidationBeforeUpstream ==
    /\ \A i, j \in 1..Len(trace) :
          i < j => Stage(trace[i]) <= Stage(trace[j])
    /\ \A i \in 1..Len(trace) :
          trace[i] = "fetch" =>
             /\ trace[1] = "validate:ok"
             /\ \E j \in 2..(i - 1) : trace[j] = "sanitize"
    /\ (pc # "idle" /\ ~Admissible(body.messages)) =>
          /\ ~Has("fetch")
          /\ ~requestBody.built
    /\ requestBody.built <=> Has("fetch")

\* C3 witness: a request went through validation, sanitization, the
\* upstream call, logging and the 200 response.
C3_FullPipelineRun ==
    /\ pc = "done"
    /\ Has("validate:ok")
    /\ Has("sanitize")
    /\ Has("fetch")
    /\ Has("log")
    /\ Answered(200)

\* C5: for a validated request, upstream 401 yields HTTP 500 with the
\* authentication-error body and no details, and upstream 429 yields HTTP
\* 429 with the retry-later body, whatever the upstream body and posture.
C5_StatusAloneDecides ==
    /\ (pc = "done" /\ response.status = 401) =>
          /\ Answered(500)
          /\ res[1].error = "Errore di autenticazione con il servizio AI"
          /\ ~res[1].hasDetails
    /\ (pc = "done" /\ response.status = 429) =>
          /\ Answered(429)
          /\ res[1].error
                = "Troppi richieste al servizio AI. Riprova tra poco."

\* the upstream call of a finished request ended in a non-2xx status
\* other than 401 and 429, a network error, or a body that is not JSON
OtherUpstreamFailure ==
    /\ pc = "done"
    /\ Has("fetch")
    /\ \/ ~Has("response")
       \/ /\ response.status \notin {401, 429}
          /\ ~Ok(response) \/ ~response.valid

\* C6: such a failure yields HTTP 500 with the generic server-error
\* message, whatever the upstream error body says, and details exactly in
\* the development posture.
C6_OtherFailuresAreGeneric500 ==
    OtherUpstreamFailure =>
       /\ Answered(500)
       /\ res[1].error = "Errore del server. Riprova tra poco."
       /\ res[1].hasDetails <=> (env = "development")

\* a systemPrompt was supplied in the request body
Supplied(p) ==
    p.t \notin {"undefined", "null"}

\* C7: the upstream request carries a system field exactly when a
\* systemPrompt was supplied, the empty string included, and its value is
\* then the sanitized systemPrompt.
C7_SystemIffSupplied ==
    requestBody.built =>
       /\ requestBody.hasSystem <=> Supplied(body.systemPrompt)
       /\ requestBody.hasSystem =>
             requestBody.system = sanitizeInput(body.systemPrompt)

\* C8: sanitizeInput returns at most the limit's characters, with neither
\* leading nor trailing whitespace, and the empty string for a non-string.
C8_SanitizedIsBoundedAndTrimmed ==
    sOut.done =>
       /\ Len(sOut.value) <= SliceLimit
       /\ sOut.value # << >> =>
             /\ ~IsWhitespace(sOut.value[1])
             /\ ~IsWhitespace(sOut.value[Len(sOut.value)])
       /\ sIn.t # "string" => sOut.value = << >>

\* C9: validateMessages accepts exactly the admissible conversations and
\* otherwise signals the first failure in the order InvalidFormat,
\* EmptyConversation, TooManyMessages, then for the earliest offending
\* message MalformedMessage before InvalidRole.
C9_ValidatorVerdict ==
    vOut.done =>
       /\ vOut.ok <=> Admissible(vIn)
       /\ ~vOut.ok => FailureName(vOut.message) = PrescribedFailure(vIn)

\* position of a step in the chain of the last request, 0 when absent
StepAt(step) ==
    IF \E i \in 1..Len(last.steps) : last.steps[i] = step
    THEN CHOOSE i \in 1..Len(last.steps) : last.steps[i] = step
    ELSE 0

\* C4: of one client's requests to /api/ paths in one window, the limiter
\* rejects none of the first 100 and rejects the 101st and every later
\* one with status 429 before any endpoint handler runs.
C4_HundredPerWindow ==
    last.ordinal > 0 =>
       /\ last.ordinal <= RateMax => last.outcome # "rateLimited"
       /\ last.ordinal > RateMax =>
             /\ last.outcome = "rateLimited"
             /\ last.status = 429
             /\ StepAt("handler") = 0

\* C10: for a request to an /api/ path the limiter's step runs before
\* the body is parsed, and a request the limiter rejects has not had its
\* body parsed.
C10_LimiterBeforeBodyParsing ==
    last.ordinal > 0 =>
       /\ StepAt("express.json") > 0 =>
             /\ StepAt("limiter") > 0
             /\ StepAt("limiter") < StepAt("express.json")
       /\ last.outcome = "rateLimited" => StepAt("express.json") = 0

====
